---- MODULE Spec2Model ----
(***************************************************************************)
(* StreamConnection (src/src/realtime/sse.ts): one subscription to a      *)
(* server-sent event feed, re-exposed through an EventEmitter, with a     *)
(* reconnection timer and exponential backoff.                            *)
(*                                                                         *)
(* The transport (EventSource) and the timer queue (setTimeout) are the   *)
(* environment: every action below is one callback or one public method   *)
(* of the class, run to completion (JavaScript is single-threaded).       *)
(***************************************************************************)
EXTENDS Integers, Sequences, FiniteSets, TLC

\* ---------------------------------------------------------------- bounds
\* Transports one connection may create (the first one and the replacements).
MaxHandles == 7
\* close() calls made by the caller.
MaxCloseCalls == 2
\* Listeners registered under one category.
MaxListeners == 2
\* 'Max reconnection attempts reached' errors counted per exhaustion.
MaxTerminalErrors == 2
\* Transports created, and listeners registered in all, while frame
\* delivery is explored.
MaxFrameHandles == 3
MaxRegistrations == 3

\* ------------------------------------------------------ program constants
DefaultMaxReconnectAttempts == 5
InitialReconnectDelay == 1000
OpenReconnectDelay == 1000
MaxReconnectDelay == 30000
BackoffFactor == 2

\* A transport is connecting, open, closed by itself after a fatal error
\* (FAILED) or closed by EventSource.close() (SHUT). EventSource.readyState
\* is CONNECTING, OPEN or CLOSED.
TransportStates == {"CONNECTING", "OPEN", "FAILED", "SHUT"}
ReadyStates == {"CONNECTING", "OPEN", "CLOSED"}
ReadyStateOf(transport) ==
  IF transport \in {"FAILED", "SHUT"} THEN "CLOSED" ELSE transport

\* Arguments the caller passes to the two setters.
MaxAttemptInputs == {0, 7}
DelayInputs == {500, 40000}

\* Event names the emitter is used with.
Categories == {"open", "error", "close", "stream_event", "batch_created", "message",
               "custom"}
\* Listeners the caller registers; the ones in ThrowingListeners throw when invoked.
ListenerIds == {"L1", "L2"}
ThrowingListeners == {"Lthrow"}
\* Categories the caller registers listeners for while the reconnection
\* machine is explored: only 'error' listeners change what a callback does
\* (EventEmitter.emit('error') throws when there is none).
ReconnectCategories == {"error"}
ReconnectListeners == {"L1"}

VARIABLES
  handles,              \* every EventSource created so far: its transport state
  eventSource,          \* this.eventSource: index into handles
  reconnectAttempts,    \* this.reconnectAttempts
  maxReconnectAttempts, \* this.maxReconnectAttempts
  reconnectDelay,       \* this.reconnectDelay
  isReconnecting,       \* this.isReconnecting
  timers,               \* pending setTimeout callbacks: [delay, attempt]
  installed,            \* per EventSource: how many times setupListeners wired it
  listeners,            \* EventEmitter registry: category -> listeners in order
  emitted,              \* events emitted by the last callback or method, in order
  invoked,              \* listener calls made by the last callback or method, in order
  threw,                \* the last callback or method ended by an exception
  lastOp,               \* the last callback or method, isReconnecting when it
                        \* began and, for a transport callback, the ready state of
                        \* the transport that called and the frame it delivered
  closed,               \* history: close() has been called
  closeEmitted,         \* history: number of 'close' events emitted
  terminalEmitted,      \* history: terminal errors emitted since the counter last changed
  configuredDelay,      \* history: the last setReconnectDelay argument, 0 when never called
  delayUnused,          \* history: setReconnectDelay was called and no
                        \* handleReconnection has run since
  maxConfigured,        \* history: setMaxReconnectAttempts has been called
  urls,                 \* per EventSource: its url attribute (a serialised URL)
  ctorUrl,              \* history: the URL object the constructor was given
  ctorKey,              \* history: the apiKey argument the constructor was given
  conns,                \* several StreamConnection objects: instance -> its fields
  queue,                \* their pending setTimeout callbacks: [owner, delay]
  actor,                \* the instance whose callback or method ran last, 0 at first
  txData,               \* a Transaction: this.data (its state and status fields)
  txRequests,           \* the HTTP requests the Transaction has sent, in order
  txOutcome             \* how its last execute() ended, and with what message

vars == <<handles, eventSource, reconnectAttempts, maxReconnectAttempts,
          reconnectDelay, isReconnecting, timers, installed, listeners,
          emitted, invoked, threw, lastOp, closed, closeEmitted,
          terminalEmitted, configuredDelay, delayUnused, maxConfigured,
          urls, ctorUrl, ctorKey, conns, queue, actor,
          txData, txRequests, txOutcome>>

\* The fields of the one StreamConnection the variables above describe, with
\* its transports, its timers and the record of its last callback.
connVars == <<handles, eventSource, reconnectAttempts, maxReconnectAttempts,
              reconnectDelay, isReconnecting, timers, installed, listeners,
              emitted, invoked, threw, lastOp, closed, closeEmitted,
              terminalEmitted, configuredDelay, delayUnused, maxConfigured, urls>>

\* What no callback and no method of that StreamConnection writes: its
\* constructor's arguments and the other objects of the program.
others == <<ctorUrl, ctorKey, conns, queue, actor, txData, txRequests, txOutcome>>

Min(a, b) == IF a <= b THEN a ELSE b

\* ------------------------------------------------------------ EventEmitter
\* emit(cat, ...) throws when cat is 'error' and no listener is registered
\* (Node's EventEmitter), or when a listener throws.
EmitThrows(cat) ==
  \/ cat = "error" /\ listeners[cat] = <<>>
  \/ \E i \in 1..Len(listeners[cat]) : listeners[cat][i] \in ThrowingListeners

Ev(cat, arg) == [event |-> cat, arg |-> arg]

TerminalError == Ev("error", "Max reconnection attempts reached")
TransportError == Ev("error", "transport")

\* The listener calls of one emit(cat, arg): the category's listeners in
\* registration order, each once, up to and including the first that throws.
FirstThrowing(cat) ==
  LET bad == {i \in 1..Len(listeners[cat]) : listeners[cat][i] \in ThrowingListeners}
  IN  IF bad = {} THEN 0 ELSE CHOOSE i \in bad : \A j \in bad : i <= j

Call(cat, arg, i) == [listener |-> listeners[cat][i], event |-> cat, arg |-> arg]

DeliverNewestFirst(cat, arg) ==
  [i \in 1..Len(listeners[cat]) |-> Call(cat, arg, Len(listeners[cat]) + 1 - i)]
DeliverFirstOnly(cat, arg) ==
  IF listeners[cat] = <<>> THEN <<>> ELSE <<Call(cat, arg, 1)>>
Deliver(cat, arg) ==
  LET n == IF FirstThrowing(cat) = 0 THEN Len(listeners[cat]) ELSE FirstThrowing(cat)
  IN  [i \in 1..n |-> Call(cat, arg, i)]

\* The listener calls of a callback that emitted evs, in order.
RECURSIVE Invocations(_)
Invocations(evs) ==
  IF evs = <<>> THEN <<>>
  ELSE Deliver(Head(evs).event, Head(evs).arg) \o Invocations(Tail(evs))

\* ------------------------------------------------------- setupListeners
\* setupListeners() wires one set of handlers on the transport it is called
\* for (sse.ts 33-77).
SetupListenersSkipped(wired) == wired
SetupListeners(wired) == wired + 1

\* EventSource.close() on transport h.
CloseTransportSkipped(hs, h) == hs
CloseTransport(hs, h) == [hs EXCEPT ![h] = "SHUT"]

\* ------------------------------------------------------------------- Init
Op(name, rs, cat, data) ==
  [op |-> name, readyState |-> rs, reconnecting |-> isReconnecting,
   cat |-> cat, data |-> data]
NoTransport(name) == Op(name, "-", "-", "-")

\* --------------------------------------------------------------------- URL
\* A URL object is a path and its query parameters in order; a serialised
\* URL is the sequence of its pieces: the path, then "?" and the parameters
\* as key, "=", encoded value, separated by "&".
Param(key, value) == [key |-> key, value |-> value]

\* Percent-encoding of a query value by URLSearchParams, and its decoding.
Encode(value) == IF value = "k 2" THEN "k+2" ELSE value
Decode(text) == IF text = "k+2" THEN "k 2" ELSE text

RECURSIVE SerialiseQuery(_)
SerialiseQuery(params) ==
  IF params = <<>> THEN <<>>
  ELSE <<Head(params).key, "=", Encode(Head(params).value)>>
       \o (IF Tail(params) = <<>> THEN <<>> ELSE <<"&">> \o SerialiseQuery(Tail(params)))

\* url.toString()
UrlToString(url) ==
  <<url.path>> \o (IF url.params = <<>> THEN <<>> ELSE <<"?">> \o SerialiseQuery(url.params))

RECURSIVE ParseQuery(_)
ParseQuery(pieces) ==
  IF Len(pieces) < 3 THEN <<>>
  ELSE <<Param(pieces[1], Decode(pieces[3]))>> \o ParseQuery(SubSeq(pieces, 5, Len(pieces)))

\* new URL(text)
UrlParse(text) ==
  [path |-> text[1], params |-> ParseQuery(SubSeq(text, 3, Len(text)))]

\* url.searchParams.append(key, value)
SearchParamsAppend(url, key, value) ==
  [url EXCEPT !.params = Append(@, Param(key, value))]

\* The url attribute of new EventSource(text): the text parsed and serialised.
EventSourceUrl(text) == UrlToString(UrlParse(text))

\* The apiKey argument: absent, empty, or a credential.
KeyInputs == {"undefined", "", "k1", "k 2"}
Truthy(apiKey) == apiKey \notin {"undefined", ""}

\* URL objects the callers build: <base>/sse/<resource path>.
UrlInputs ==
  { [path |-> "base/sse/streams", params |-> <<>>],
    [path |-> "base/sse/streams/s1", params |-> <<>>],
    [path |-> "base/sse/accounts/a1/streams", params |-> <<Param("v", "2")>>] }

\* The text the constructor hands to new EventSource (sse.ts 25-29).
ConstructorUrl(url, apiKey) ==
  UrlToString(IF Truthy(apiKey) THEN SearchParamsAppend(url, "api_key", apiKey) ELSE url)

\* The text the timer callback hands to new EventSource (sse.ts 91, 93).
ReconnectUrlPathOnly(current) == <<current[1]>>
ReconnectUrl(current) == UrlToString(UrlParse(current))

\* get url() (sse.ts 116-118)
Url == urls[eventSource]

\* ------------------------------------------------------------- Transaction
\* Transaction (src/src/models/transaction.ts): the state and status fields
\* of its data, each absent, empty or a state name.
TxStateValues == {"undefined", "", "Draft", "pending", "Pending", "Completed", "completed"}
TxDataInputs == [state : TxStateValues, status : TxStateValues]

\* The test's transaction (transaction.test.ts 21-33): status pending, no state.
TestTransactionData == [state |-> "undefined", status |-> "pending"]

\* new Transaction(data, http), nothing sent and execute() not called yet.
NewTransaction(data) ==
  /\ txData = data
  /\ txRequests = <<>>
  /\ txOutcome = [kind |-> "none", message |-> <<>>]

\* Several connections, as the callers create them (one per subscribe call):
\* the fields of each (sse.ts 15-19), the state of its current transport,
\* the number of transports it has created, its 'error' listeners and the
\* events its last callback or method emitted.
Instances == {1, 2}

NewConnection ==
  [transport |-> "CONNECTING", created |-> 1,
   reconnectAttempts |-> 0, maxReconnectAttempts |-> DefaultMaxReconnectAttempts,
   reconnectDelay |-> InitialReconnectDelay, isReconnecting |-> FALSE,
   listeners |-> <<>>, emitted |-> <<>>]

\* The constructor (sse.ts 21-31) and the field initialisers (16-19).
Construct(url, apiKey) ==
  /\ handles = <<"CONNECTING">>
  /\ eventSource = 1
  /\ reconnectAttempts = 0
  /\ maxReconnectAttempts = DefaultMaxReconnectAttempts
  /\ reconnectDelay = InitialReconnectDelay
  /\ isReconnecting = FALSE
  /\ timers = <<>>
  /\ installed = <<SetupListeners(0)>>
  /\ listeners = [c \in Categories |-> <<>>]
  /\ emitted = <<>>
  /\ invoked = <<>>
  /\ threw = FALSE
  /\ lastOp = [op |-> "constructor", readyState |-> "CONNECTING",
               reconnecting |-> FALSE, cat |-> "-", data |-> "-"]
  /\ closed = FALSE
  /\ closeEmitted = 0
  /\ terminalEmitted = 0
  /\ configuredDelay = 0
  /\ delayUnused = FALSE
  /\ maxConfigured = FALSE
  /\ urls = <<EventSourceUrl(ConstructorUrl(url, apiKey))>>
  /\ ctorUrl = url
  /\ ctorKey = apiKey
  /\ conns = [c \in Instances |-> NewConnection]
  /\ queue = <<>>
  /\ actor = 0

\* StreamsResource.subscribeToAll() with the client's key (gateways.ts
\* 201-204), and the test's transaction.
DefaultConnection == Construct([path |-> "base/sse/streams", params |-> <<>>], "k1")

Init == DefaultConnection /\ NewTransaction(TestTransactionData)

\* ------------------------------------------------------------------ on()
\* EventEmitter.on: appends the listener to the category's list.
On(cat, l) ==
  /\ Len(listeners[cat]) < MaxListeners
  /\ listeners' = [listeners EXCEPT ![cat] = Append(@, l)]
  /\ emitted' = <<>>
  /\ invoked' = <<>>
  /\ threw' = FALSE
  /\ lastOp' = NoTransport("on")
  /\ UNCHANGED <<urls, others>>
  /\ UNCHANGED <<handles, eventSource, reconnectAttempts, maxReconnectAttempts,
                 reconnectDelay, isReconnecting, timers, installed, closed,
                 closeEmitted, terminalEmitted, configuredDelay, delayUnused,
                 maxConfigured>>

\* ---------------------------------------------------------------- onopen
\* What onopen writes to the two backoff fields (sse.ts 36-37).
AttemptsAfterOpenKept(attempts) == attempts
AttemptsAfterOpen(attempts) == 0
DelayAfterOpen(delay) == OpenReconnectDelay

\* The transport h finishes connecting and calls onopen: emit('open'), then
\* the two resets; a listener that throws ends the callback before them.
OnOpen(h) ==
  /\ h \in 1..Len(handles)
  /\ handles[h] = "CONNECTING"
  /\ handles' = [handles EXCEPT ![h] = "OPEN"]
  /\ emitted' = <<Ev("open", "")>>
  /\ invoked' = Invocations(emitted')
  /\ threw' = EmitThrows("open")
  /\ lastOp' = Op("onopen", "OPEN", "-", "-")
  /\ IF EmitThrows("open")
     THEN UNCHANGED <<reconnectAttempts, reconnectDelay, terminalEmitted>>
     ELSE /\ reconnectAttempts' = AttemptsAfterOpen(reconnectAttempts)
          /\ reconnectDelay' = DelayAfterOpen(reconnectDelay)
          /\ terminalEmitted' = 0
  /\ UNCHANGED <<urls, others>>
  /\ UNCHANGED <<eventSource, maxReconnectAttempts, isReconnecting, timers,
                 installed, listeners, closed, closeEmitted, configuredDelay,
                 delayUnused, maxConfigured>>

\* --------------------------------------------------- handleReconnection
\* Exponential backoff (sse.ts 103).
NextDelayUncapped(delay) == delay * BackoffFactor
NextDelay(delay) == Min(delay * BackoffFactor, MaxReconnectDelay)

\* The budget test (sse.ts 80).
BudgetExhausted(attempts, max) == attempts >= max

\* handleReconnection() with the flag raised before the budget test.
HandleReconnectionFlagFirst(pre) ==
  /\ delayUnused' = FALSE
  /\ isReconnecting' = TRUE
  /\ IF BudgetExhausted(reconnectAttempts, maxReconnectAttempts)
     THEN /\ emitted' = Append(pre, TerminalError)
          /\ threw' = EmitThrows("error")
          /\ terminalEmitted' = terminalEmitted + 1
          /\ UNCHANGED <<reconnectAttempts, timers, reconnectDelay>>
     ELSE /\ reconnectAttempts' = reconnectAttempts + 1
          /\ timers' = Append(timers, [delay |-> reconnectDelay,
                                       attempt |-> reconnectAttempts + 1])
          /\ reconnectDelay' = NextDelay(reconnectDelay)
          /\ emitted' = pre
          /\ threw' = FALSE
          /\ terminalEmitted' = 0

\* handleReconnection() that starts the count again at every evaluation.
HandleReconnectionRestart(pre) ==
  /\ delayUnused' = FALSE
  /\ IF BudgetExhausted(reconnectAttempts, maxReconnectAttempts)
     THEN /\ emitted' = Append(pre, TerminalError)
          /\ threw' = EmitThrows("error")
          /\ terminalEmitted' = terminalEmitted + 1
          /\ UNCHANGED <<isReconnecting, reconnectAttempts, timers, reconnectDelay>>
     ELSE /\ isReconnecting' = TRUE
          /\ reconnectAttempts' = 1
          /\ timers' = Append(timers, [delay |-> reconnectDelay, attempt |-> 1])
          /\ reconnectDelay' = NextDelay(reconnectDelay)
          /\ emitted' = pre
          /\ threw' = FALSE
          /\ terminalEmitted' = 0

\* handleReconnection(), called from onerror after it has emitted `pre`.
HandleReconnection(pre) ==
  /\ delayUnused' = FALSE
  /\ IF BudgetExhausted(reconnectAttempts, maxReconnectAttempts)
     THEN /\ emitted' = Append(pre, TerminalError)
          /\ threw' = EmitThrows("error")
          /\ terminalEmitted' = terminalEmitted + 1
          /\ UNCHANGED <<isReconnecting, reconnectAttempts, timers, reconnectDelay>>
     ELSE /\ isReconnecting' = TRUE
          /\ reconnectAttempts' = reconnectAttempts + 1
          /\ timers' = Append(timers, [delay |-> reconnectDelay,
                                       attempt |-> reconnectAttempts + 1])
          /\ reconnectDelay' = NextDelay(reconnectDelay)
          /\ emitted' = pre
          /\ threw' = FALSE
          /\ terminalEmitted' = 0

\* --------------------------------------------------------------- onerror
\* The reconnection test of onerror (sse.ts 44): the ready state read is the
\* one of this.eventSource, the current handle.
ShouldReconnectAnyState(currentReadyState, reconnecting) == ~reconnecting
ShouldReconnectAnyFlag(currentReadyState, reconnecting) ==
  currentReadyState = "CLOSED"
ShouldReconnect(currentReadyState, reconnecting) ==
  currentReadyState = "CLOSED" /\ ~reconnecting

\* The transport h calls onerror with its ready state now rs. A live
\* transport either stays alive (rs = CONNECTING, a recoverable error) or
\* fails for good (rs = CLOSED). A transport that has failed may call
\* onerror again (the isReconnecting flag is there for such repeated
\* callbacks); one closed with close() calls nothing any more.
OnError(h, rs) ==
  /\ h \in 1..Len(handles)
  /\ handles[h] # "SHUT"
  /\ handles[h] = "FAILED" => rs = "CLOSED"
  /\ handles' = [handles EXCEPT ![h] = IF rs = "CLOSED" THEN "FAILED" ELSE rs]
  /\ lastOp' = Op("onerror", rs, "-", "-")
  /\ IF EmitThrows("error")
     THEN /\ emitted' = <<TransportError>>
          /\ threw' = TRUE
          /\ UNCHANGED <<isReconnecting, reconnectAttempts, timers,
                         reconnectDelay, terminalEmitted, delayUnused>>
     ELSE IF ShouldReconnect(ReadyStateOf(handles'[eventSource]), isReconnecting)
          THEN /\ BudgetExhausted(reconnectAttempts, maxReconnectAttempts)
                    => terminalEmitted < MaxTerminalErrors
               /\ HandleReconnection(<<TransportError>>)
          ELSE /\ emitted' = <<TransportError>>
               /\ threw' = FALSE
               /\ UNCHANGED <<isReconnecting, reconnectAttempts, timers,
                              reconnectDelay, terminalEmitted, delayUnused>>
  /\ invoked' = Invocations(emitted')
  /\ UNCHANGED <<urls, others>>
  /\ UNCHANGED <<eventSource, maxReconnectAttempts, installed, listeners,
                 closed, closeEmitted, configuredDelay, maxConfigured>>

\* ------------------------------------------------- the setTimeout callback
\* What the callback leaves in isReconnecting (sse.ts 95, 97) and what its
\* catch block emits (98).
FlagAfterTimerCatchForgets(fails) == fails
FlagAfterTimer(fails) == FALSE

CatchEmitsNothing == <<>>
CatchEmits == <<Ev("error", "Reconnection failed")>>

RemoveAt(s, i) == [j \in 1..(Len(s) - 1) |-> IF j < i THEN s[j] ELSE s[j + 1]]

\* The i-th pending timer fires (sse.ts 88-100): the old transport is
\* closed, a new one is created for the same URL and takes its place, the
\* handlers are installed on it and the flag is cleared. When creating the
\* new transport throws (fails), the catch clears the flag and emits an
\* error; this.eventSource still names the old, closed transport.
TimerFire(i, fails) ==
  /\ i \in 1..Len(timers)
  /\ ~fails => Len(handles) < MaxHandles
  /\ timers' = RemoveAt(timers, i)
  /\ isReconnecting' = FlagAfterTimer(fails)
  /\ lastOp' = NoTransport(IF fails THEN "timer_failed" ELSE "timer")
  /\ IF fails
     THEN /\ handles' = CloseTransport(handles, eventSource)
          /\ eventSource' = eventSource
          /\ installed' = installed
          /\ urls' = urls
          /\ emitted' = CatchEmits
          /\ threw' = (CatchEmits # <<>> /\ EmitThrows("error"))
     ELSE /\ handles' = Append(CloseTransport(handles, eventSource), "CONNECTING")
          /\ eventSource' = Len(handles) + 1
          /\ installed' = Append(installed, SetupListeners(0))
          /\ urls' = Append(urls, EventSourceUrl(ReconnectUrl(urls[eventSource])))
          /\ emitted' = <<>>
          /\ threw' = FALSE
  /\ invoked' = Invocations(emitted')
  /\ UNCHANGED others
  /\ UNCHANGED <<reconnectAttempts, maxReconnectAttempts, reconnectDelay,
                 listeners, closed, closeEmitted, terminalEmitted,
                 configuredDelay, delayUnused, maxConfigured>>

\* ---------------------------------------------------------------- close()
\* close() (sse.ts 123-126): closes the current transport and emits 'close'.
Close ==
  /\ closeEmitted < MaxCloseCalls
  /\ handles' = CloseTransport(handles, eventSource)
  /\ emitted' = <<Ev("close", "")>>
  /\ invoked' = Invocations(emitted')
  /\ threw' = EmitThrows("close")
  /\ lastOp' = NoTransport("close")
  /\ closed' = TRUE
  /\ closeEmitted' = closeEmitted + 1
  /\ UNCHANGED <<urls, others>>
  /\ UNCHANGED <<eventSource, reconnectAttempts, maxReconnectAttempts,
                 reconnectDelay, isReconnecting, timers, installed, listeners,
                 terminalEmitted, configuredDelay, delayUnused, maxConfigured>>

\* ------------------------------------------------------------ the setters
SetMaxReconnectAttempts(maxAttempts) ==
  /\ maxReconnectAttempts' = maxAttempts
  /\ maxConfigured' = TRUE
  /\ emitted' = <<>>
  /\ invoked' = <<>>
  /\ threw' = FALSE
  /\ lastOp' = NoTransport("setMaxReconnectAttempts")
  /\ UNCHANGED <<urls, others>>
  /\ UNCHANGED <<handles, eventSource, reconnectAttempts, reconnectDelay,
                 isReconnecting, timers, installed, listeners, closed,
                 closeEmitted, terminalEmitted, configuredDelay, delayUnused>>

SetReconnectDelay(delay) ==
  /\ reconnectDelay' = delay
  /\ configuredDelay' = delay
  /\ delayUnused' = TRUE
  /\ emitted' = <<>>
  /\ invoked' = <<>>
  /\ threw' = FALSE
  /\ lastOp' = NoTransport("setReconnectDelay")
  /\ UNCHANGED <<urls, others>>
  /\ UNCHANGED <<handles, eventSource, reconnectAttempts, maxReconnectAttempts,
                 isReconnecting, timers, installed, listeners, closed,
                 closeEmitted, terminalEmitted, maxConfigured>>

\* ----------------------------------------------------------------- frames
\* Event names a frame can carry on the wire ('message' when it names none;
\* 'custom' stands for any other name), and the ones setupListeners installs
\* a handler for with addEventListener (sse.ts 49, 58, 68).
WireCategories == {"stream_event", "batch_created", "message", "custom"}
HandledCategories == {"stream_event", "batch_created", "message"}
\* The two whose handler reports a failure as an 'error' event (sse.ts 54, 63).
NamedCategories == {"stream_event", "batch_created"}

\* Frame bodies, and JSON.parse on them: it returns the parsed value or throws.
ValidJson == {"{a}", "{b}"}
FrameData == ValidJson \cup {"not json"}
JsonParses(data) == data \in ValidJson
JsonParse(data) == CASE data = "{a}" -> "object a" [] data = "{b}" -> "object b"

ParseFailure(cat) ==
  CASE cat = "stream_event" -> "Failed to parse stream_event"
    [] cat = "batch_created" -> "Failed to parse batch_created"

\* What the catch block of the category's handler emits (sse.ts 54, 63, 74).
FailureEventAlwaysRaw(cat, data) == Ev(cat, data)
FailureEventAlwaysError(cat, data) ==
  IF cat = "message" THEN Ev("error", "Failed to parse message")
  ELSE Ev("error", ParseFailure(cat))
FailureEvent(cat, data) ==
  IF cat = "message" THEN Ev("message", data) ELSE Ev("error", ParseFailure(cat))

\* One handler run on one frame: the emit of the parsed value is inside the
\* try block, so an exception from it (a listener's) reaches the catch too.
HandlerEmits(cat, data) ==
  IF JsonParses(data)
  THEN IF EmitThrows(cat)
       THEN <<Ev(cat, JsonParse(data)), FailureEvent(cat, data)>>
       ELSE <<Ev(cat, JsonParse(data))>>
  ELSE <<FailureEvent(cat, data)>>

HandlerThrows(cat, data) ==
  EmitThrows(HandlerEmits(cat, data)[Len(HandlerEmits(cat, data))].event)

RECURSIVE Repeat(_, _)
Repeat(evs, n) == IF n = 0 THEN <<>> ELSE evs \o Repeat(evs, n - 1)

\* The open transport h delivers a frame named cat with body data: every
\* handler wired for cat on h runs; with none wired nothing runs.
OnFrame(h, cat, data) ==
  /\ h \in 1..Len(handles)
  /\ handles[h] = "OPEN"
  /\ lastOp' = Op("frame", "OPEN", cat, data)
  /\ IF cat \in HandledCategories
     THEN /\ emitted' = Repeat(HandlerEmits(cat, data), installed[h])
          /\ threw' = (installed[h] > 0 /\ HandlerThrows(cat, data))
     ELSE /\ emitted' = <<>>
          /\ threw' = FALSE
  /\ invoked' = Invocations(emitted')
  /\ UNCHANGED <<urls, others>>
  /\ UNCHANGED <<handles, eventSource, reconnectAttempts, maxReconnectAttempts,
                 reconnectDelay, isReconnecting, timers, installed, listeners,
                 closed, closeEmitted, terminalEmitted, configuredDelay,
                 delayUnused, maxConfigured>>

\* ------------------------------------------------------------------ Next
Next ==
  \/ \E cat \in ReconnectCategories, l \in ReconnectListeners : On(cat, l)
  \/ \E h \in 1..Len(handles) : OnOpen(h)
  \/ \E h \in 1..Len(handles), rs \in {"CONNECTING", "CLOSED"} : OnError(h, rs)
  \/ \E i \in 1..Len(timers), fails \in BOOLEAN : TimerFire(i, fails)
  \/ Close
  \/ \E n \in MaxAttemptInputs : SetMaxReconnectAttempts(n)
  \/ \E d \in DelayInputs : SetReconnectDelay(d)

Spec == Init /\ [][Next]_vars

\* Frame delivery across reconnections: listeners under every category,
\* frames of every wire category, fewer transports.
FrameCategories == {"error", "stream_event", "batch_created", "message", "custom"}
FrameListeners(cat) == IF cat = "error" THEN ReconnectListeners ELSE ListenerIds

RECURSIVE Registered(_)
Registered(cats) ==
  IF cats = {} THEN 0
  ELSE LET c == CHOOSE x \in cats : TRUE
       IN  Len(listeners[c]) + Registered(cats \ {c})

FrameNext ==
  \/ \E cat \in FrameCategories : \E l \in FrameListeners(cat) :
        Registered(Categories) < MaxRegistrations /\ On(cat, l)
  \/ \E h \in 1..Len(handles) : OnOpen(h)
  \/ \E h \in 1..Len(handles), rs \in {"CONNECTING", "CLOSED"} : OnError(h, rs)
  \/ \E i \in 1..Len(timers) : Len(handles) < MaxFrameHandles /\ TimerFire(i, FALSE)
  \/ \E h \in 1..Len(handles), cat \in WireCategories, data \in FrameData :
        OnFrame(h, cat, data)

SpecFrames == Init /\ [][FrameNext]_vars

\* The effective URL across reconnections: every constructor input, the
\* reconnection machine with fewer transports.
MaxUrlHandles == 3

UrlInit ==
  /\ \E url \in UrlInputs, apiKey \in KeyInputs : Construct(url, apiKey)
  /\ NewTransaction(TestTransactionData)

UrlNext ==
  \/ \E cat \in ReconnectCategories, l \in ReconnectListeners : On(cat, l)
  \/ \E h \in 1..Len(handles) : OnOpen(h)
  \/ \E h \in 1..Len(handles), rs \in {"CONNECTING", "CLOSED"} : OnError(h, rs)
  \/ \E i \in 1..Len(timers), fails \in BOOLEAN :
        Len(handles) < MaxUrlHandles /\ TimerFire(i, fails)

SpecUrl == UrlInit /\ [][UrlNext]_vars

\* Listeners that throw: the caller registers well-behaved and throwing
\* listeners for 'error' and for the named categories, in any order.
MaxThrowHandles == 3
MaxThrowRegistrations == 2

ThrowCategories == {"error", "stream_event", "batch_created"}
ThrowListeners == ReconnectListeners \cup ThrowingListeners

ThrowNext ==
  \/ \E cat \in ThrowCategories, l \in ThrowListeners :
        Registered(Categories) < MaxThrowRegistrations /\ On(cat, l)
  \/ \E h \in 1..Len(handles) : OnOpen(h)
  \/ \E h \in 1..Len(handles), rs \in {"CONNECTING", "CLOSED"} : OnError(h, rs)
  \/ \E i \in 1..Len(timers), fails \in BOOLEAN :
        Len(handles) < MaxThrowHandles /\ TimerFire(i, fails)
  \/ \E h \in 1..Len(handles), cat \in NamedCategories, data \in FrameData :
        OnFrame(h, cat, data)

SpecThrow == Init /\ [][ThrowNext]_vars

\* Reconnection to its end: the caller registers listeners and does nothing
\* else (no close(), no setter), the replacement transport can be created,
\* and a pending setTimeout callback is eventually run by the event loop.
\* Errors stop arriving once MaxLiveHandles transports have been created.
MaxLiveHandles == 5

LiveTimerFire == \E i \in 1..Len(timers) : TimerFire(i, FALSE)

LiveNext ==
  \/ \E cat \in ReconnectCategories, l \in ReconnectListeners : On(cat, l)
  \/ \E h \in 1..Len(handles) : OnOpen(h)
  \/ \E h \in 1..Len(handles), rs \in {"CONNECTING", "CLOSED"} :
        Len(handles) < MaxLiveHandles /\ OnError(h, rs)
  \/ LiveTimerFire

SpecLive == Init /\ [][LiveNext]_vars /\ WF_vars(LiveTimerFire)

\* ------------------------------------------------------- several instances
\* The same callbacks and methods with `this` explicit: each reads and writes
\* the fields of the connection it belongs to. setTimeout's queue is the
\* runtime's, one for all connections; a pending callback is an arrow
\* function, so its `this` is the connection that scheduled it.
MaxInstanceHandles == 2
InstanceMaxAttemptInputs == {0}
InstanceDelayInputs == {500}

ThisLastConstructed(timer) == 2
This(timer) == timer.owner

ConnectionEmitThrows(conn, cat) == cat = "error" /\ conn.listeners = <<>>

\* onopen (sse.ts 34-38)
ConnectionOnOpen(conn) ==
  [conn EXCEPT !.transport = "OPEN",
               !.emitted = <<Ev("open", "")>>,
               !.reconnectAttempts = AttemptsAfterOpen(@),
               !.reconnectDelay = DelayAfterOpen(@)]

\* onerror reaches setTimeout (sse.ts 41, 44, 80, 88).
ConnectionSchedules(conn, rs) ==
  /\ ~ConnectionEmitThrows(conn, "error")
  /\ ShouldReconnect(rs, conn.isReconnecting)
  /\ ~BudgetExhausted(conn.reconnectAttempts, conn.maxReconnectAttempts)

\* onerror and handleReconnection (sse.ts 40-47, 79-104); the transport that
\* calls is the connection's current one, its ready state now rs.
ConnectionOnError(conn, rs) ==
  LET called == [conn EXCEPT !.transport = IF rs = "CLOSED" THEN "FAILED" ELSE rs,
                             !.emitted = <<TransportError>>]
  IN  IF ConnectionEmitThrows(conn, "error") \/ ~ShouldReconnect(rs, conn.isReconnecting)
      THEN called
      ELSE IF BudgetExhausted(conn.reconnectAttempts, conn.maxReconnectAttempts)
           THEN [called EXCEPT !.emitted = <<TransportError, TerminalError>>]
           ELSE [called EXCEPT !.isReconnecting = TRUE,
                               !.reconnectAttempts = @ + 1,
                               !.reconnectDelay = NextDelay(@)]

\* The setTimeout callback (sse.ts 88-100).
ConnectionTimer(conn, fails) ==
  IF fails
  THEN [conn EXCEPT !.transport = "SHUT",
                    !.isReconnecting = FALSE,
                    !.emitted = <<Ev("error", "Reconnection failed")>>]
  ELSE [conn EXCEPT !.transport = "CONNECTING",
                    !.created = @ + 1,
                    !.isReconnecting = FALSE,
                    !.emitted = <<>>]

\* close() (sse.ts 123-126)
ConnectionClose(conn) ==
  [conn EXCEPT !.transport = "SHUT", !.emitted = <<Ev("close", "")>>]

\* A callback or method called on connection c (owner: by whose timer) that
\* leaves the connection `target` as conn and the timer queue as q.
Acts(c, target, conn, q) ==
  /\ conns' = [conns EXCEPT ![target] = conn]
  /\ queue' = q
  /\ actor' = c
  /\ UNCHANGED <<connVars, ctorUrl, ctorKey, txData, txRequests, txOutcome>>

InstanceOn(c, l) ==
  /\ conns[c].listeners = <<>>
  /\ Acts(c, c, [conns[c] EXCEPT !.listeners = Append(@, l), !.emitted = <<>>], queue)

InstanceOnOpen(c) ==
  /\ conns[c].transport = "CONNECTING"
  /\ Acts(c, c, ConnectionOnOpen(conns[c]), queue)

InstanceOnError(c, rs) ==
  /\ conns[c].transport # "SHUT"
  /\ conns[c].transport = "FAILED" => rs = "CLOSED"
  /\ Acts(c, c, ConnectionOnError(conns[c], rs),
          IF ConnectionSchedules(conns[c], rs)
          THEN Append(queue, [owner |-> c, delay |-> conns[c].reconnectDelay])
          ELSE queue)

InstanceTimerFire(i, fails) ==
  /\ i \in 1..Len(queue)
  /\ ~fails => conns[This(queue[i])].created < MaxInstanceHandles
  /\ Acts(queue[i].owner, This(queue[i]),
          ConnectionTimer(conns[This(queue[i])], fails), RemoveAt(queue, i))

InstanceClose(c) ==
  Acts(c, c, ConnectionClose(conns[c]), queue)

InstanceSetMaxReconnectAttempts(c, maxAttempts) ==
  Acts(c, c, [conns[c] EXCEPT !.maxReconnectAttempts = maxAttempts, !.emitted = <<>>],
       queue)

InstanceSetReconnectDelay(c, delay) ==
  Acts(c, c, [conns[c] EXCEPT !.reconnectDelay = delay, !.emitted = <<>>], queue)

InstancesNext ==
  \/ \E c \in Instances, l \in ReconnectListeners : InstanceOn(c, l)
  \/ \E c \in Instances : InstanceOnOpen(c)
  \/ \E c \in Instances, rs \in {"CONNECTING", "CLOSED"} : InstanceOnError(c, rs)
  \/ \E i \in 1..Len(queue), fails \in BOOLEAN : InstanceTimerFire(i, fails)
  \/ \E c \in Instances : InstanceClose(c)
  \/ \E c \in Instances, n \in InstanceMaxAttemptInputs :
        InstanceSetMaxReconnectAttempts(c, n)
  \/ \E c \in Instances, d \in InstanceDelayInputs : InstanceSetReconnectDelay(c, d)

SpecInstances == Init /\ [][InstancesNext]_vars

\* ----------------------------------------------------- Transaction.execute
\* HTTP requests execute() may send before the exploration stops.
MaxRequests == 2

\* The gatewayId argument, and what http.post settles with: the
\* transaction's new data, or a rejection.
GatewayInputs == {"undefined", "", "stripe"}
PostOutcomes ==
  { [ok |-> TRUE, data |-> [state |-> "Completed", status |-> "undefined"], error |-> ""],
    [ok |-> TRUE, data |-> [state |-> "undefined", status |-> "completed"], error |-> ""],
    [ok |-> TRUE, data |-> [state |-> "Draft", status |-> "pending"], error |-> ""],
    [ok |-> FALSE, data |-> [state |-> "undefined", status |-> "undefined"],
     error |-> "Execution failed"] }

\* this.data.state || this.data.status (transaction.ts 74)
CurrentState(data) == IF Truthy(data.state) THEN data.state ELSE data.status

\* The guard of execute() (transaction.ts 75).
ExecuteRefusedStateOnly(data) ==
  Truthy(data.state) /\ data.state # "Draft" /\ data.state # "pending"
ExecuteRefused(data) ==
  /\ Truthy(CurrentState(data))
  /\ CurrentState(data) # "Draft"
  /\ CurrentState(data) # "pending"

\* The request of execute(gatewayId) (transaction.ts 79-83).
ExecuteRequest(gatewayId) ==
  IF Truthy(gatewayId)
  THEN [method |-> "POST", path |-> "/transactions/id/gateway/execute", body |-> gatewayId]
  ELSE [method |-> "POST", path |-> "/transactions/id/execute", body |-> "undefined"]

\* execute(gatewayId), to the settling of the promise it returns: refused by
\* the guard, or the POST sent and this.data assigned when it resolves.
Execute(gatewayId, response) ==
  /\ IF ExecuteRefused(txData)
     THEN /\ txOutcome' = [kind |-> "rejected",
                           message |-> <<"Cannot execute transaction in state: ",
                                         CurrentState(txData)>>]
          /\ UNCHANGED <<txData, txRequests>>
     ELSE /\ Len(txRequests) < MaxRequests
          /\ txRequests' = Append(txRequests, ExecuteRequest(gatewayId))
          /\ IF response.ok
             THEN /\ txData' = response.data
                  /\ txOutcome' = [kind |-> "resolved", message |-> <<>>]
             ELSE /\ txData' = txData
                  /\ txOutcome' = [kind |-> "rejected", message |-> <<response.error>>]
  /\ UNCHANGED <<connVars, ctorUrl, ctorKey, conns, queue, actor>>

TxInit == DefaultConnection /\ \E data \in TxDataInputs : NewTransaction(data)

TxNext == \E gatewayId \in GatewayInputs, response \in PostOutcomes :
            Execute(gatewayId, response)

SpecTx == TxInit /\ [][TxNext]_vars

\* ================================================================ claims
ErrorStep == lastOp'.op = "onerror"
ClosureErrorStep == ErrorStep /\ lastOp'.readyState = "CLOSED"

\* C1: once close() has returned, no transport handle is created any more,
\* also when a reconnection timer that was pending at close() fires later.
C1_NoTransportAfterClose ==
  [][closed => Len(handles') = Len(handles)]_vars

\* C2: once close() has been called, an error callback that arrives with the
\* ready state closed schedules no reconnection timer and does not increment
\* the reconnect-attempt counter.
C2_NoReconnectAfterClose ==
  [][(closed /\ ClosureErrorStep)
       => (Len(timers') <= Len(timers) /\ reconnectAttempts' <= reconnectAttempts)]_vars

\* C3: when close() has been called at least once, exactly one 'close' event
\* has been emitted in total.
C3_ExactlyOneCloseEvent ==
  closed => closeEmitted = 1

\* C4: with no setter calls, each definitive-closure error of the current
\* transport (no reconnection in flight) schedules one timer while the
\* attempt counter is below the maximum and none once it has reached it, and
\* the counter (the timers scheduled since the last open) never exceeds the
\* maximum.
C4_TimerPerClosureWithinBudget ==
  /\ [](~maxConfigured => reconnectAttempts <= maxReconnectAttempts)
  /\ [][(ClosureErrorStep /\ ~isReconnecting
           /\ ~maxConfigured /\ configuredDelay = 0)
          => IF reconnectAttempts < maxReconnectAttempts
             THEN /\ Len(timers') = Len(timers) + 1
                  /\ reconnectAttempts' = reconnectAttempts + 1
             ELSE timers' = timers]_vars

\* C5: while the attempt counter stays at the maximum, the terminal 'Max
\* reconnection attempts reached' error is emitted at most once, however
\* many further error callbacks arrive.
C5_TerminalErrorOnce ==
  terminalEmitted <= 1

\* C6: with the delay never set by the caller, the timer of attempt k (k
\* counted since the last open) is scheduled with min(1000 * 2^(k-1), 30000) ms.
C6_BackoffDelay ==
  configuredDelay = 0 =>
    \A i \in 1..Len(timers) :
      timers[i].delay = Min(1000 * 2^(timers[i].attempt - 1), 30000)

\* The sixth attempt in a row is pending, with the capped delay.
C6_Witness ==
  /\ configuredDelay = 0
  /\ \E i \in 1..Len(timers) : timers[i].attempt = 6 /\ timers[i].delay = 30000

\* C7: right after an open notification has been handled the attempt counter
\* is 0 and the backoff delay is 1000 ms, the floor onopen resets it to.
C7_OpenResets ==
  lastOp.op = "onopen" => (reconnectAttempts = 0 /\ reconnectDelay = 1000)

\* A replacement transport has just opened: the counter, which was at least
\* 1 when the replacement was scheduled, is back at 0.
C7_Witness ==
  lastOp.op = "onopen" /\ eventSource >= 2 /\ reconnectAttempts = 0

\* C8: after setReconnectDelay(d), an open notification resets the delay to d.
C8_OpenResetsToConfiguredFloor ==
  (lastOp.op = "onopen" /\ configuredDelay # 0) => reconnectDelay = configuredDelay

\* C9: every reconnection timer is scheduled with a delay of at most 30000
\* ms, whatever setReconnectDelay was called with.
C9_TimerDelayCapped ==
  \A i \in 1..Len(timers) : timers[i].delay <= 30000

\* C10: an error callback from a transport whose ready state is not closed
\* schedules no timer and leaves the attempt counter, the delay, the
\* in-flight flag and the handle as they were.
C10_TransientErrorNoReconnect ==
  [][(ErrorStep /\ lastOp'.readyState # "CLOSED")
       => /\ timers' = timers
          /\ reconnectAttempts' = reconnectAttempts
          /\ reconnectDelay' = reconnectDelay
          /\ isReconnecting' = isReconnecting
          /\ eventSource' = eventSource
          /\ Len(handles') = Len(handles)]_vars

\* A recoverable error has just been handled, to the end, with no
\* reconnection in flight: only the ready state kept it from reconnecting.
C10_Witness ==
  /\ lastOp.op = "onerror"
  /\ lastOp.readyState = "CONNECTING"
  /\ ~threw
  /\ ~isReconnecting
  /\ reconnectAttempts < maxReconnectAttempts

\* C11: at most one reconnection timer is pending, and a definitive-closure
\* error that arrives while it is pending schedules no second timer and
\* leaves the attempt counter and the backoff delay as they were.
C11_SingleReconnection ==
  /\ [](Len(timers) <= 1)
  /\ [][(ClosureErrorStep /\ timers # <<>>)
          => /\ timers' = timers
             /\ reconnectAttempts' = reconnectAttempts
             /\ reconnectDelay' = reconnectDelay]_vars

\* A definitive-closure error has just been handled, to the end, while the
\* timer of an earlier one was pending.
C11_Witness ==
  /\ lastOp.op = "onerror"
  /\ lastOp.readyState = "CLOSED"
  /\ lastOp.reconnecting
  /\ ~threw
  /\ Len(timers) = 1

\* C12: at most one transport is not closed; the handle field names the
\* newest transport, and every transport it named before was closed with
\* close() when it was replaced.
LiveHandles == {h \in 1..Len(handles) : ReadyStateOf(handles[h]) # "CLOSED"}

C12_OneLiveHandle ==
  /\ Cardinality(LiveHandles) <= 1
  /\ eventSource = Len(handles)
  /\ \A h \in 1..Len(handles) : h # eventSource => handles[h] = "SHUT"

\* The second replacement transport is open.
C12_Witness ==
  Len(handles) >= 3 /\ handles[eventSource] = "OPEN"

\* What a category's listeners are owed for one event: each registered
\* listener called once, in registration order, with the event's argument.
Expected(cat, arg) ==
  [i \in 1..Len(listeners[cat]) |->
     [listener |-> listeners[cat][i], event |-> cat, arg |-> arg]]

FrameStep == lastOp'.op = "frame"

\* C13: replacing the transport leaves the registered listeners as they
\* are, and a valid stream_event or batch_created frame calls each listener
\* registered for it exactly once with the parsed payload, on the first
\* transport and on every replacement.
C13_ListenersSurviveReconnect ==
  /\ [][lastOp'.op \in {"timer", "timer_failed"} => listeners' = listeners]_vars
  /\ []((lastOp.op = "frame" /\ lastOp.cat \in NamedCategories
           /\ lastOp.data \in ValidJson)
          => invoked = Expected(lastOp.cat, JsonParse(lastOp.data)))

\* After two reconnections a stream_event frame has reached the listener
\* registered for it, once, parsed.
C13_Witness ==
  /\ lastOp.op = "frame"
  /\ lastOp.cat = "stream_event"
  /\ lastOp.data = "{a}"
  /\ eventSource = 3
  /\ invoked = <<[listener |-> "L1", event |-> "stream_event", arg |-> "object a"]>>

\* C14: a stream_event or batch_created frame whose body is not JSON emits
\* exactly one 'error' event naming the category and nothing under the
\* category's name, and leaves counter, delay, flag, timers and handle alone.
C14_MalformedFrame ==
  [][(FrameStep /\ lastOp'.cat \in NamedCategories /\ lastOp'.data \notin ValidJson)
       => /\ emitted' = <<Ev("error", IF lastOp'.cat = "stream_event"
                                       THEN "Failed to parse stream_event"
                                       ELSE "Failed to parse batch_created")>>
          /\ UNCHANGED <<reconnectAttempts, reconnectDelay, isReconnecting,
                         timers, eventSource, handles>>]_vars

\* A malformed batch_created frame has been reported to an error listener.
C14_Witness ==
  /\ lastOp.op = "frame"
  /\ lastOp.cat = "batch_created"
  /\ lastOp.data = "not json"
  /\ invoked = <<[listener |-> "L1", event |-> "error",
                  arg |-> "Failed to parse batch_created"]>>

\* C15: a 'message' frame emits exactly one 'message' event, the parsed
\* value when the body is JSON and the raw text otherwise, and no 'error'.
C15_MessageNeverErrors ==
  (lastOp.op = "frame" /\ lastOp.cat = "message")
    => /\ emitted = <<Ev("message", IF lastOp.data \in ValidJson
                                    THEN JsonParse(lastOp.data) ELSE lastOp.data)>>
       /\ ~threw

\* A 'message' frame that is not JSON has reached a listener as raw text,
\* with no error listener registered.
C15_Witness ==
  /\ lastOp.op = "frame"
  /\ lastOp.cat = "message"
  /\ lastOp.data = "not json"
  /\ listeners["error"] = <<>>
  /\ invoked = <<[listener |-> "L1", event |-> "message", arg |-> "not json"]>>

\* C16: a frame under another category name reaches the listeners
\* registered under that name, parsed when its body is JSON, raw otherwise.
C16_CustomPassThrough ==
  (lastOp.op = "frame" /\ lastOp.cat = "custom")
    => invoked = Expected("custom", IF lastOp.data \in ValidJson
                                    THEN JsonParse(lastOp.data) ELSE lastOp.data)

\* C17: with no 'error' listener registered, no transport callback and no
\* timer callback ends by an exception.
C17_NoThrowWithoutErrorListener ==
  (lastOp.op \in {"onerror", "frame", "timer_failed"} /\ listeners["error"] = <<>>)
    => ~threw

\* C18: every onerror callback emits the transport's error as a local
\* 'error' event, first, and every registered error listener is called with it.
C18_ErrorAlwaysSurfaced ==
  lastOp.op = "onerror"
    => /\ emitted # <<>>
       /\ emitted[1] = Ev("error", "transport")
       /\ Len(invoked) >= Len(listeners["error"])
       /\ \A i \in 1..Len(listeners["error"]) :
            invoked[i] = [listener |-> listeners["error"][i], event |-> "error",
                          arg |-> "transport"]

\* With the budget exhausted, a further error callback has reached both of
\* two registered error listeners.
C18_Witness ==
  /\ lastOp.op = "onerror"
  /\ Len(listeners["error"]) = 2
  /\ terminalEmitted >= 1
  /\ Len(invoked) = 4

\* C19: the callback that reports budget exhaustion leaves no timer pending
\* and the flag down, replaces no handle and emits no 'close'; a close()
\* after it closes the handle and emits 'close'.
C19_ExhaustionInert ==
  /\ [][(ErrorStep /\ \E i \in 1..Len(emitted') : emitted'[i] = TerminalError)
          => /\ timers' = <<>>
             /\ ~isReconnecting'
             /\ eventSource' = eventSource
             /\ Len(handles') = Len(handles)
             /\ closeEmitted' = closeEmitted
             /\ \A i \in 1..Len(emitted') : emitted'[i].event # "close"]_vars
  /\ [][(terminalEmitted >= 1 /\ lastOp'.op = "close")
          => /\ handles'[eventSource'] = "SHUT"
             /\ emitted' = <<Ev("close", "")>>]_vars

\* close() has been called on a connection whose budget is exhausted.
C19_Witness ==
  /\ lastOp.op = "close"
  /\ terminalEmitted >= 1
  /\ reconnectAttempts >= 1
  /\ handles[eventSource] = "SHUT"
  /\ timers = <<>>

\* C20: a setter leaves the pending timer, the attempt counter and the flag
\* as they are; the next handleReconnection decides with the maximum as set
\* and schedules with the delay as set.
SetterStep == lastOp'.op \in {"setMaxReconnectAttempts", "setReconnectDelay"}
SchedulingStep == Len(timers') > Len(timers)

C20_SettersFrame ==
  [][SetterStep => /\ timers' = timers
                   /\ reconnectAttempts' = reconnectAttempts
                   /\ isReconnecting' = isReconnecting]_vars

C20_NextDecisionUsesMax ==
  [][(ClosureErrorStep /\ ~threw' /\ ~isReconnecting)
       => (SchedulingStep <=> reconnectAttempts < maxReconnectAttempts)]_vars

C20_SettersApplyToNextDecision ==
  /\ C20_SettersFrame
  /\ C20_NextDecisionUsesMax
  /\ [][(SchedulingStep /\ delayUnused)
          => timers'[Len(timers')].delay = configuredDelay]_vars

\* C21: every transport, the first and each replacement, is opened for the
\* same URL: the path and the parameters the constructor was given, followed
\* by api_key=<credential> once when a non-empty credential was given and by
\* nothing otherwise; the url accessor returns it.
C21_SameEffectiveUrl ==
  LET credential == IF ctorKey \in {"undefined", ""} THEN <<>>
                    ELSE <<[key |-> "api_key", value |-> ctorKey]>>
      effective == [path |-> ctorUrl.path, params |-> ctorUrl.params \o credential]
  IN  /\ \A h \in 1..Len(urls) : UrlParse(urls[h]) = effective /\ urls[h] = urls[1]
      /\ UrlParse(Url) = effective
      /\ Len(urls) = Len(handles)

\* The second replacement transport has been opened for a URL that had a
\* parameter of its own, with a credential that needs encoding.
C21_Witness ==
  /\ Len(handles) = 3
  /\ ctorKey = "k 2"
  /\ urls[3] = <<"base/sse/accounts/a1/streams", "?", "v", "=", "2", "&",
                 "api_key", "=", "k+2">>

\* C22: a callback, a timer firing, a setter call or close() of one
\* connection leaves every other connection as it was: its counter, delay,
\* flag, transport, listeners and pending timer, and the events emitted on it.
OwnedBy(q, c) == SelectSeq(q, LAMBDA timer : timer.owner = c)

C22_InstancesIndependent ==
  [][\A c \in Instances :
       c # actor' => /\ conns'[c] = conns[c]
                     /\ OwnedBy(queue', c) = OwnedBy(queue, c)]_vars

\* The timer of connection 1 has fired and replaced its transport while
\* connection 2, two attempts into its backoff, has its own timer pending.
C22_Witness ==
  /\ actor = 1
  /\ conns[1].created = 2
  /\ conns[1].transport = "CONNECTING"
  /\ ~conns[1].isReconnecting
  /\ conns[2].isReconnecting
  /\ conns[2].reconnectAttempts = 2
  /\ queue = <<[owner |-> 2, delay |-> 2000]>>

\* C23: a frame that is emitted under its category (a stream_event or
\* batch_created frame with a JSON body, any 'message' frame) calls every
\* listener registered for the category, once each, in registration order.
C23_RegistrationOrder ==
  (/\ lastOp.op = "frame"
   /\ \/ lastOp.cat = "message"
      \/ lastOp.cat \in NamedCategories /\ lastOp.data \in ValidJson)
    => /\ Len(invoked) = Len(listeners[lastOp.cat])
       /\ \A i \in 1..Len(invoked) :
            /\ invoked[i].listener = listeners[lastOp.cat][i]
            /\ invoked[i].event = lastOp.cat
            /\ invoked[i].arg = IF lastOp.data \in ValidJson
                                THEN JsonParse(lastOp.data) ELSE lastOp.data

\* L2 registered before L1 for batch_created: a frame has called L2, then L1.
C23_Witness ==
  /\ lastOp.op = "frame"
  /\ lastOp.cat = "batch_created"
  /\ listeners["batch_created"] = <<"L2", "L1">>
  /\ invoked = <<[listener |-> "L2", event |-> "batch_created", arg |-> "object b"],
                 [listener |-> "L1", event |-> "batch_created", arg |-> "object b"]>>

\* C24: whenever a definitive-closure error has been handled with no
\* reconnection in flight and the attempt counter below the maximum, then,
\* the timer firing and close() not being called, a new transport is
\* eventually opened with the handlers installed and the flag cleared.
C24_ClosureHandled ==
  /\ lastOp.op = "onerror"
  /\ lastOp.readyState = "CLOSED"
  /\ ~lastOp.reconnecting
  /\ IF threw THEN reconnectAttempts < maxReconnectAttempts
     ELSE \A i \in 1..Len(emitted) : emitted[i] # TerminalError

C24_Reconnected ==
  /\ lastOp.op = "timer"
  /\ handles[eventSource] = "CONNECTING"
  /\ installed[eventSource] = 1
  /\ ~isReconnecting

C24_ReconnectionLiveness == C24_ClosureHandled ~> C24_Reconnected

\* C25: a definitive-closure error of a replacement transport is evaluated
\* like the first one, with the counter and the delay as the earlier
\* attempts left them; the counter changes only by +1 with a scheduled timer
\* and to 0 by an open notification, and the timer callback leaves counter
\* and delay alone.
C25_CounterCarriedOver ==
  /\ [][reconnectAttempts' # reconnectAttempts
          => \/ SchedulingStep /\ reconnectAttempts' = reconnectAttempts + 1
             \/ lastOp'.op = "onopen" /\ reconnectAttempts' = 0]_vars
  /\ [][(ClosureErrorStep /\ eventSource >= 2 /\ ~isReconnecting
           /\ reconnectAttempts < maxReconnectAttempts)
          => timers' = Append(timers, [delay |-> reconnectDelay,
                                       attempt |-> reconnectAttempts + 1])]_vars
  /\ [][lastOp'.op \in {"timer", "timer_failed"}
          => /\ reconnectAttempts' = reconnectAttempts
             /\ reconnectDelay' = reconnectDelay]_vars

\* The third transport in a row has failed without ever opening: the third
\* timer is pending, scheduled with the delay two doublings left.
C25_Witness ==
  /\ lastOp.op = "onerror"
  /\ eventSource = 3
  /\ configuredDelay = 0
  /\ reconnectAttempts = 3
  /\ timers = <<[delay |-> 4000, attempt |-> 3]>>
  /\ reconnectDelay = 8000

\* C26: when creating the replacement transport throws in the timer
\* callback, the exception stays in the callback: the flag is cleared, one
\* 'error' event 'Reconnection failed' is emitted, and counter, delay and
\* handle are as before. The callback ends normally, every error listener
\* called, unless one of the caller's error listeners itself throws.
C26_CreationFailureContained ==
  [][lastOp'.op = "timer_failed"
       => /\ threw' => \E i \in 1..Len(listeners["error"]) :
                          listeners["error"][i] \in ThrowingListeners
          /\ ~threw' => Len(invoked') = Len(listeners["error"])
          /\ ~isReconnecting'
          /\ emitted' = <<[event |-> "error", arg |-> "Reconnection failed"]>>
          /\ reconnectAttempts' = reconnectAttempts
          /\ reconnectDelay' = reconnectDelay
          /\ eventSource' = eventSource
          /\ Len(handles') = Len(handles)]_vars

\* The replacement of a replacement could not be created: the second timer
\* callback has ended in its catch block.
C26_Witness ==
  /\ lastOp.op = "timer_failed"
  /\ lastOp.reconnecting
  /\ eventSource = 2
  /\ reconnectAttempts = 2
  /\ timers = <<>>
  /\ ~isReconnecting
  /\ invoked = <<[listener |-> "L1", event |-> "error", arg |-> "Reconnection failed"]>>

\* C27: whether a definitive-closure error schedules a reconnection depends
\* on the flag and the budget alone, not on the 'error' listeners: with
\* none registered, or with one that throws, the timer is scheduled as with
\* a well-behaved one.
C27_SchedulingIgnoresListeners ==
  [][ClosureErrorStep
       => (SchedulingStep
             <=> (~isReconnecting /\ reconnectAttempts < maxReconnectAttempts))]_vars

\* C28: a stream_event or batch_created frame whose body parsed emits no
\* 'Failed to parse ...' error, also when a listener of the category throws.
C28_ParseErrorOnlyForParseFailure ==
  (lastOp.op = "frame" /\ lastOp.cat \in NamedCategories /\ lastOp.data \in ValidJson)
    => \A i \in 1..Len(emitted) : emitted[i] # Ev("error", ParseFailure(lastOp.cat))

\* C29: isReconnecting is true exactly while a reconnection timer is
\* pending; it is false when the timer callback has ended, by either path,
\* and when an error callback has reported the budget exhausted.
C29_FlagIffTimerPending ==
  /\ isReconnecting <=> (timers # <<>>)
  /\ lastOp.op \in {"timer", "timer_failed"} => ~isReconnecting
  /\ (lastOp.op = "onerror" /\ \E i \in 1..Len(emitted) : emitted[i] = TerminalError)
       => ~isReconnecting

\* Five replacements in a row have failed without opening and the closure
\* error of the fifth has found the budget exhausted: flag down, no timer.
C29_Witness ==
  /\ lastOp.op = "onerror"
  /\ reconnectAttempts = 5
  /\ maxReconnectAttempts = 5
  /\ emitted = <<TransportError, TerminalError>>
  /\ handles[eventSource] = "FAILED"
  /\ eventSource = 6
  /\ ~isReconnecting
  /\ timers = <<>>

\* C30: execute() on a transaction whose current state (state, else status)
\* is set and is neither 'Draft' nor 'pending' fails with 'Cannot execute
\* transaction in state: <state>', sends no request and leaves the data as
\* it was; when the state permits execution and the POST rejects, execute()
\* fails with the POST's error and the data is as it was.
C30_ExecuteGuard ==
  [][<<txData, txRequests, txOutcome>>' # <<txData, txRequests, txOutcome>>
       => LET current == IF txData.state \notin {"undefined", ""}
                         THEN txData.state ELSE txData.status
          IN  IF current \notin {"undefined", "", "Draft", "pending"}
              THEN /\ txOutcome' = [kind |-> "rejected",
                                    message |-> <<"Cannot execute transaction in state: ",
                                                  current>>]
                   /\ txRequests' = txRequests
                   /\ txData' = txData
              ELSE /\ Len(txRequests') = Len(txRequests) + 1
                   /\ txOutcome'.kind = "rejected"
                        => /\ txOutcome'.message = <<"Execution failed">>
                           /\ txData' = txData]_vars

\* A first execute() was sent and resolved with status completed and no
\* state; the second was refused for that status without a second request.
C30_Witness ==
  /\ txOutcome = [kind |-> "rejected",
                  message |-> <<"Cannot execute transaction in state: ", "completed">>]
  /\ txData = [state |-> "undefined", status |-> "completed"]
  /\ Len(txRequests) = 1

====
